---- MODULE Spec2Model ----
(***************************************************************************)
(* Model of the page layout and composition engine of go-flipbook          *)
(* (pkg/composite/composite.go): one call of To4x6x3 or ToLetter, i.e. one *)
(* run of renderPages, step by step: directory listing and trim, cover     *)
(* rendering and substitution, the effect pass, and the page loop; and of  *)
(* the command line program around it (cmd/fbconvert/main.go): flag        *)
(* checks, --clean, frame extraction, validation, layout choice.           *)
(*                                                                         *)
(* File names are integers ordered as the names are: the frame files of    *)
(* the input directory are 1, 2, ... and cover.png is CoverName.  A path   *)
(* is <<directory, name>>.  Inches are counted in quarters, which float32  *)
(* represents exactly, so int(x * DPI) is (quarters * DPI) \div 4.         *)
(***************************************************************************)
EXTENDS Integers, Sequences, FiniteSets, TLC

VARIABLES
    layoutFn,       \* which exported function is called: "To4x6x3" or "ToLetter"
    opts,           \* composite.Options
    fs,             \* the file system: path -> image content
    pc,             \* position of the run inside renderPages
    listing,        \* result of ioutil.ReadDir(opts.InputDir)
    frames,         \* the frames slice of renderPages
    coverImgIndex,  \* var coverImgIndex int
    coverFrame,     \* name of the file renderFrontCover was given
    ei,             \* position of the effect loop (range frames)
    nPages,         \* nFrames / framesPerPage
    pi,             \* page loop counter
    pages,          \* history: one record per page iteration entered
    compFiles,      \* comp-<identifier>-<NNN>.jpg files: NNN -> page iteration
    compImg,        \* the canvas: which allocation it is and what is drawn on it
    err,            \* the error renderPages returned
    mpc,            \* position of fbconvert's main; "lib" for a direct library call
    args,           \* the command line flags of fbconvert
    removed,        \* paths main deleted with os.Remove
    ffmpegRan,      \* ffmpeg.VideoFilter was called
    videoFrames,    \* the frames []os.FileInfo of main
    exitMsg,        \* what main logged when it ended
    geo             \* one call of compFrame: source size, cell, what was drawn

mainVars == <<mpc, args, removed, ffmpegRan, videoFrames, exitMsg, geo>>

vars == <<layoutFn, opts, fs, pc, listing, frames, coverImgIndex, coverFrame,
          ei, nPages, pi, pages, compFiles, compImg, err, mainVars>>

(* ------------------------------ bounds --------------------------------- *)

\* largest number of files in the input directory
MaxFiles == 30

(* ----------------------------- constants ------------------------------- *)

\* the name "cover.png"
CoverName == 0

ValidEffects == {"oil", "pixelate", "pencil", "edge", "cartoon"}

\* effect names the runs are started with: none, a valid one, an invalid one
EffectInputs == {"", "oil", "sepia"}

Dirs == {"in", "out"}

(* --------------------------- pure functions ---------------------------- *)

\* image content of an untouched frame file
Orig(name) == [src |-> name, blur |-> FALSE, fx |-> 0]

\* imaging.Blur(src, 12.5)
Blur(img) == [img EXCEPT !.blur = TRUE]

\* mutant: the loaded image is saved as it was
ApplyEffect_unprocessed(img) == img

\* effects.OilPainting / Pixelate / Pencil / Sobel / Cartoon
ApplyEffect(img) == [img EXCEPT !.fx = @ + 1]

\* writing a file
Put(f, p, img) == IF p \in DOMAIN f THEN [f EXCEPT ![p] = img] ELSE (p :> img) @@ f

\* ioutil.ReadDir: the names in a directory, sorted by name
ReadDir(f, dir) ==
    LET names == {p[2] : p \in {q \in DOMAIN f : q[1] = dir}}
    IN  [i \in 1..Cardinality(names) |->
            CHOOSE x \in names : Cardinality({y \in names : y < x}) = i - 1]

\* path.Join(dir, name)
Join(dir, name) == <<dir, name>>

\* int(inches * float32(DPI)), inches given in quarters
Px(quarters, dpi) == (quarters * dpi) \div 4

\* the pages cmd/fbconvert builds for its three layouts, default margins
Page4x6 ==
    [Width |-> 16, Height |-> 24, MarginTop |-> 0, MarginRight |-> 0,
     MarginBottom |-> 0, MarginLeft |-> 0, DPI |-> 300]
PageLetter ==
    [Width |-> 34, Height |-> 44, MarginTop |-> 0, MarginRight |-> 0,
     MarginBottom |-> 4, MarginLeft |-> 0, DPI |-> 300]
PageLetterBusiness ==
    [Width |-> 34, Height |-> 44, MarginTop |-> 2, MarginRight |-> 2,
     MarginBottom |-> 2, MarginLeft |-> 2, DPI |-> 300]

PagesOf(fn) == IF fn = "To4x6x3" THEN {Page4x6} ELSE {PageLetter, PageLetterBusiness}

\* opts.Rows, opts.Cols as To4x6x3 and ToLetter set them
WithGrid(fn, o) ==
    IF fn = "To4x6x3" THEN [o EXCEPT !.Rows = 3, !.Cols = 1]
                      ELSE [o EXCEPT !.Rows = 5, !.Cols = 2]

\* framesPerPage := nCols * nRows
framesPerPage(o) == o.Cols * o.Rows

\* mutant: the frame list is not trimmed
TrimLen_noTrim(f, k) == f

\* frames[:framesPerPage*(len(frames)/framesPerPage)]
TrimLen(f, k) == k * (f \div k)

trimFrames(list, k) == SubSeq(list, 1, TrimLen(Len(list), k))

\* mutant: the cover always replaces the first frame
coverIndexOf_first(o, n) == 0

\* if opts.ReverseFrames { coverImgIndex = len(frames) - 1 } else { coverImgIndex = 0 }
coverIndexOf(o, n) == IF o.ReverseFrames THEN n - 1 ELSE 0

\* frames[coverImgIndex] = coverImgInfo (when opts.Cover)
substituteCover(o, fr) ==
    IF o.Cover THEN [fr EXCEPT ![coverIndexOf(o, Len(fr)) + 1] = CoverName] ELSE fr

\* renderBounds, computed at the top of every page iteration
renderBoundsOf(o) ==
    [left   |-> Px(o.Page.MarginLeft, o.Page.DPI),
     top    |-> Px(o.Page.MarginTop, o.Page.DPI),
     width  |-> Px(o.Page.Width - (o.Page.MarginLeft + o.Page.MarginRight), o.Page.DPI),
     height |-> Px(o.Page.Height - (o.Page.MarginTop + o.Page.MarginBottom), o.Page.DPI)]

\* mutant: the pages are filled one after the other, not interlaced
frameIndex4x6x3_sequential(pageIndex, ri, n) == pageIndex * 3 + ri

\* fi := pageIndex + ri*nPages
frameIndex4x6x3(pageIndex, ri, n) == pageIndex + ri * n

\* mutant: the line the source keeps commented out,
\* fi := pageIndex*framesPerPage + ri + ci*opts.Rows
frameIndexLetter_sequential(pageIndex, ri, ci, n, rows) ==
    pageIndex * (rows * 2) + ri + ci * rows

\* mutant: the column stride forgets the rows
frameIndexLetter_colStride(pageIndex, ri, ci, n, rows) == pageIndex + (ri * n + ci * n)

\* fi := pageIndex + (ri*nPages + ci*nPages*opts.Rows)
frameIndexLetter(pageIndex, ri, ci, n, rows) == pageIndex + (ri * n + ci * n * rows)

\* mutant: the reversal is off by one
reverseIndex_offByOne(o, fi, nFrames) == IF o.ReverseFrames THEN nFrames - fi ELSE fi

\* mutant: the reversal reads the page flag
reverseIndex_pageFlag(o, fi, nFrames) == IF o.ReversePages THEN nFrames - fi - 1 ELSE fi

\* if opts.ReverseFrames { fi = nFrames - fi - 1 }
reverseIndex(o, fi, nFrames) == IF o.ReverseFrames THEN nFrames - fi - 1 ELSE fi

\* one frame{...} literal of a layout function
cell(o, fr, fi, frontCoverIndex, bounds) ==
    [path |-> o.InputDir, info |-> fr[fi + 1], bounds |-> bounds, index |-> fi,
     isFrontCover |-> (fi = frontCoverIndex), label |-> o.Identifier]

\* Go's integer division, which truncates toward zero
GoDiv(a, b) == IF a >= 0 THEN a \div b ELSE -((-a) \div b)

\* the bounds: rect{...} of To4x6x3's frame literal, frameHeight :=
\* renderBounds.height / opts.Rows
bounds4x6x3(renderBounds, rows, ri) ==
    [left   |-> renderBounds.left,
     top    |-> renderBounds.top + GoDiv(renderBounds.height, rows) * ri,
     width  |-> renderBounds.width,
     height |-> GoDiv(renderBounds.height, rows)]

\* mutant: the columns are as wide as the whole printable rectangle
boundsLetter_fullWidth(renderBounds, rows, cols, ri, ci) ==
    [left   |-> renderBounds.left + ci * renderBounds.width,
     top    |-> renderBounds.top + GoDiv(renderBounds.height, rows) * ri,
     width  |-> renderBounds.width,
     height |-> GoDiv(renderBounds.height, rows)]

\* the bounds: rect{...} of ToLetter's frame literal, frameHeight :=
\* renderBounds.height / opts.Rows, frameWidth := renderBounds.width / opts.Cols
boundsLetter(renderBounds, rows, cols, ri, ci) ==
    [left   |-> renderBounds.left + ci * GoDiv(renderBounds.width, cols),
     top    |-> renderBounds.top + GoDiv(renderBounds.height, rows) * ri,
     width  |-> GoDiv(renderBounds.width, cols),
     height |-> GoDiv(renderBounds.height, rows)]

\* layoutPage of To4x6x3: the cells of one page in append order, or the
\* index-out-of-range panic of frames[fi]
layoutPage4x6x3(pageIndex, n, frontCoverIndex, renderBounds, o, fr) ==
    LET nFrames == Len(fr)
        fiOf(ri) == reverseIndex(o, frameIndex4x6x3(pageIndex, ri, n), nFrames)
        boundsOf(ri) == bounds4x6x3(renderBounds, o.Rows, ri)
    IN  IF \A ri \in 0..(o.Rows - 1) : fiOf(ri) \in 0..(nFrames - 1)
        THEN [panic |-> FALSE,
              cells |-> [j \in 1..o.Rows |->
                            cell(o, fr, fiOf(j - 1), frontCoverIndex, boundsOf(j - 1))]]
        ELSE [panic |-> TRUE, cells |-> <<>>]

\* layoutPage of ToLetter: columns outermost, rows innermost
layoutPageLetter(pageIndex, n, frontCoverIndex, renderBounds, o, fr) ==
    LET nFrames == Len(fr)
        ciOf(j) == (j - 1) \div o.Rows
        riOf(j) == (j - 1) % o.Rows
        fiOf(ri, ci) ==
            reverseIndex(o, frameIndexLetter(pageIndex, ri, ci, n, o.Rows), nFrames)
        boundsOf(ri, ci) == boundsLetter(renderBounds, o.Rows, o.Cols, ri, ci)
    IN  IF \A ri \in 0..(o.Rows - 1), ci \in 0..(o.Cols - 1) :
               fiOf(ri, ci) \in 0..(nFrames - 1)
        THEN [panic |-> FALSE,
              cells |-> [j \in 1..(o.Rows * o.Cols) |->
                            cell(o, fr, fiOf(riOf(j), ciOf(j)), frontCoverIndex,
                                 boundsOf(riOf(j), ciOf(j)))]]
        ELSE [panic |-> TRUE, cells |-> <<>>]

\* the layoutFunc renderPages is handed
layout(fn, pageIndex, n, frontCoverIndex, renderBounds, o, fr) ==
    IF fn = "To4x6x3"
    THEN layoutPage4x6x3(pageIndex, n, frontCoverIndex, renderBounds, o, fr)
    ELSE layoutPageLetter(pageIndex, n, frontCoverIndex, renderBounds, o, fr)

\* nPages := nFrames / framesPerPage
nPagesOf(o, fr) == Len(fr) \div framesPerPage(o)

\* mutant: the reversed numbering is off by one
compIndexOf_offByOne(o, n, p) == IF o.ReversePages THEN n - p ELSE p

\* mutant: the page numbering reads the frame flag
compIndexOf_frameFlag(o, n, p) == IF o.ReverseFrames THEN n - p - 1 ELSE p

\* if opts.ReversePages { compIndex = nPages - pi - 1 } else { compIndex = pi }
compIndexOf(o, n, p) == IF o.ReversePages THEN n - p - 1 ELSE p

(* ------------------------------- Init ---------------------------------- *)

\* the options a caller hands to To4x6x3 / ToLetter
OptionsOf(fn) ==
    [Page : PagesOf(fn), Rows : {0}, Cols : {0},
     InputDir : Dirs, OutputDir : {"out"}, Identifier : {"id"},
     ReversePages : BOOLEAN, ReverseFrames : BOOLEAN, Cover : BOOLEAN,
     Effect : EffectInputs, VerLog : BOOLEAN, BGColor : {"white"}]

\* no canvas has been allocated
NoCanvas == [id |-> 0, drawn |-> <<>>]

\* compImg := image.NewRGBA(...): one more allocation, nothing drawn on it
newCanvas(c) == [id |-> c.id + 1, drawn |-> <<>>]

\* mutant: the canvas is not cleared between pages
fillCanvas_skip(c) == c

\* draw.Draw(compImg, compImg.Bounds(), image.White, ...): nothing that was
\* drawn stays
fillCanvas(c) == [c EXCEPT !.drawn = <<>>]

\* the cells of d drawn over what is on the canvas, cell by cell
drawOn(c, d) ==
    [c EXCEPT !.drawn = [j \in DOMAIN c.drawn \cup DOMAIN d |->
                            IF j \in DOMAIN d THEN d[j] ELSE c.drawn[j]]]

\* flag values of a caller that is not fbconvert
NoArgs == [layout |-> ""]

\* no compFrame call is followed pixel by pixel
NoGeo == [stage |-> "idle"]

Init ==
    /\ layoutFn \in {"To4x6x3", "ToLetter"}
    /\ opts \in OptionsOf(layoutFn)
    /\ \E f \in 0..MaxFiles :
          fs = [p \in {Join(opts.InputDir, i) : i \in 1..f} |-> Orig(p[2])]
    /\ pc = "start"
    /\ listing = <<>>
    /\ frames = <<>>
    /\ coverImgIndex = 0
    /\ coverFrame = CoverName
    /\ ei = 0
    /\ nPages = 0
    /\ pi = 0
    /\ pages = <<>>
    /\ compFiles = <<>>
    /\ compImg = NoCanvas
    /\ err = ""
    /\ mpc = "lib"
    /\ args = NoArgs
    /\ removed = {}
    /\ ffmpegRan = FALSE
    /\ videoFrames = <<>>
    /\ exitMsg = ""
    /\ geo = NoGeo

(* ------------------------------ actions -------------------------------- *)

\* mutant: the effect loop is left after its first frame
effectPassOver_afterFirst(o, i, fr) == o.Effect = "" \/ i >= 1 \/ i = Len(fr)

\* if opts.Effect != "" { for _, f := range frames {...} }: the loop is over
effectPassOver(o, i, fr) == o.Effect = "" \/ i = Len(fr)

\* mutant: the error is noted but not returned
Fail_notReturned(msg) == pc' = pc /\ err' = msg

\* return RenderInfo{}, fmt.Errorf(...)
Fail(msg) == pc' = "error" /\ err' = msg

\* To4x6x3 / ToLetter set Rows and Cols; renderPages lines 236-249: the VerLog
\* check, ReadDir and the trim
Start ==
    /\ pc = "start"
    /\ opts' = WithGrid(layoutFn, opts)
    /\ \/ /\ ~opts.VerLog
          /\ Fail("VerLog cannot be nil")
          /\ UNCHANGED <<listing, frames>>
       \/ /\ opts.VerLog
          /\ Fail("failed to read input images")
          /\ UNCHANGED <<listing, frames>>
       \/ /\ opts.VerLog
          /\ listing' = ReadDir(fs, opts.InputDir)
          /\ frames' = trimFrames(listing', framesPerPage(opts'))
          /\ pc' = "cover"
          /\ UNCHANGED err
    /\ UNCHANGED <<layoutFn, fs, coverImgIndex, coverFrame, ei, nPages, pi, pages,
                   compFiles, compImg>>
    /\ UNCHANGED mainVars

\* renderPages lines 251-277: the cover is rendered from frames[0], saved as
\* OutputDir/cover.png and substituted at coverImgIndex
RenderCover ==
    /\ pc = "cover"
    /\ \/ /\ ~opts.Cover
          /\ pc' = "effect"
          /\ UNCHANGED <<fs, frames, coverImgIndex, coverFrame, err>>
       \/ /\ opts.Cover
          /\ frames = <<>>
          /\ pc' = "panic"
          /\ UNCHANGED <<fs, frames, coverImgIndex, coverFrame, err>>
       \/ /\ opts.Cover
          /\ frames # <<>>
          /\ coverFrame' = frames[1]
          /\ LET coverFramePath == Join(opts.InputDir, frames[1])
                 coverImgOutPath == Join(opts.OutputDir, CoverName)
             IN  \/ /\ Fail("failed to generate cover image")
                    /\ UNCHANGED <<fs, frames, coverImgIndex>>
                 \/ /\ Fail("failed to save cover image")
                    /\ UNCHANGED <<fs, frames, coverImgIndex>>
                 \/ /\ coverFramePath \in DOMAIN fs
                    /\ fs' = Put(fs, coverImgOutPath, Blur(fs[coverFramePath]))
                    /\ \/ /\ Fail("failed to stat cover image")
                          /\ UNCHANGED <<frames, coverImgIndex>>
                       \/ /\ coverImgIndex' = coverIndexOf(opts, Len(frames))
                          /\ frames' = substituteCover(opts, frames)
                          /\ pc' = "effect"
                          /\ UNCHANGED err
    /\ UNCHANGED <<layoutFn, opts, listing, ei, nPages, pi, pages, compFiles, compImg>>
    /\ UNCHANGED mainVars

\* renderPages lines 281-336: one iteration of the effect loop over frames;
\* the frame file is loaded, processed and saved over itself
EffectFrame ==
    /\ pc = "effect"
    /\ ~effectPassOver(opts, ei, frames)
    /\ LET p == Join(opts.InputDir, frames[ei + 1])
       IN  \/ /\ Fail("failed to load frame")
              /\ UNCHANGED <<fs, ei>>
           \/ /\ p \in DOMAIN fs
              /\ opts.Effect \notin ValidEffects
              /\ Fail("invalid effect option")
              /\ UNCHANGED <<fs, ei>>
           \/ /\ p \in DOMAIN fs
              /\ opts.Effect \in ValidEffects
              /\ \/ /\ Fail("failed to apply effect")
                    /\ UNCHANGED <<fs, ei>>
                 \/ /\ Fail("failed to save image with effect")
                    /\ UNCHANGED <<fs, ei>>
                 \/ /\ fs' = Put(fs, p, ApplyEffect(fs[p]))
                    /\ ei' = ei + 1
                    /\ UNCHANGED <<pc, err>>
    /\ UNCHANGED <<layoutFn, opts, listing, frames, coverImgIndex, coverFrame, nPages,
                   pi, pages, compFiles, compImg>>
    /\ UNCHANGED mainVars

\* renderPages lines 343-357: nFrames, nPages and the canvas, once the
\* effect pass is over or was not asked for
StartPages ==
    /\ pc = "effect"
    /\ effectPassOver(opts, ei, frames)
    /\ nPages' = nPagesOf(opts, frames)
    /\ compImg' = newCanvas(compImg)
    /\ pc' = "pages"
    /\ UNCHANGED <<layoutFn, opts, fs, listing, frames, coverImgIndex, coverFrame, ei,
                   pi, pages, compFiles, err>>
    /\ UNCHANGED mainVars

\* draw.Draw(compImg, compImg.Bounds(), image.White, image.ZP, draw.Src)
canvasFill(o) == "white"

\* the smallest element of a non-empty set of integers
Min(S) == CHOOSE x \in S : \A y \in S : x <= y

\* compFrame lines 463-475: the file a cell is read from
imgPathOf(c) == Join(c.path, c.info)

\* renderPages lines 358-394: one page iteration: layout, compFrame for
\* every cell in order (a cell fails when its file cannot be opened or
\* decoded, a cell flagged isFrontCover also when the font does not parse,
\* after its image was drawn), then writeJPG under the page's output index
ComposePage ==
    /\ pc = "pages"
    /\ pi < nPages
    /\ \E L \in {layout(layoutFn, pi, nPages, coverImgIndex, renderBoundsOf(opts),
                        opts, frames)} :
       LET missing == {j \in DOMAIN L.cells : imgPathOf(L.cells[j]) \notin DOMAIN fs}
           page(upTo, bad) ==
               [pi |-> pi, cells |-> L.cells, failedCell |-> bad,
                bg |-> canvasFill(opts),
                canvas |-> compImg.id, under |-> fillCanvas(compImg).drawn,
                drawn |-> [j \in 1..upTo |->
                             [imgPath |-> imgPathOf(L.cells[j]),
                              img |-> fs[imgPathOf(L.cells[j])]]]]
           composed(g) ==
               /\ pages' = Append(pages, g)
               /\ compImg' = drawOn(fillCanvas(compImg), g.drawn)
       IN  IF L.panic
           THEN /\ pc' = "panic"
                /\ UNCHANGED <<pi, pages, compFiles, compImg, err>>
           ELSE \E corrupt \in 0..Len(L.cells), fontParses \in BOOLEAN :
                   LET bad == missing \cup ({corrupt} \ {0})
                       noFont == IF fontParses THEN {}
                                 ELSE {j \in DOMAIN L.cells : L.cells[j].isFrontCover}
                       stop == bad \cup noFont
                   IN  \/ /\ stop # {}
                          /\ Min(stop) \in bad
                          /\ composed(page(Min(stop) - 1, Min(stop)))
                          /\ Fail("failed to read input image")
                          /\ UNCHANGED <<pi, compFiles>>
                       \/ /\ stop # {}
                          /\ Min(stop) \notin bad
                          /\ composed(page(Min(stop), Min(stop)))
                          /\ Fail("failed to parse font file")
                          /\ UNCHANGED <<pi, compFiles>>
                       \/ /\ stop = {}
                          /\ composed(page(Len(L.cells), 0))
                          /\ \/ /\ Fail("failed to create image")
                                /\ UNCHANGED <<pi, compFiles>>
                             \/ /\ compFiles' =
                                      Put(compFiles, compIndexOf(opts, nPages, pi), pi)
                                /\ pi' = pi + 1
                                /\ UNCHANGED <<pc, err>>
    /\ UNCHANGED <<layoutFn, opts, fs, listing, frames, coverImgIndex, coverFrame, ei,
                   nPages>>
    /\ UNCHANGED mainVars

\* renderPages lines 396-399: return RenderInfo{...}, nil
Finish ==
    /\ pc = "pages"
    /\ pi = nPages
    /\ pc' = "done"
    /\ UNCHANGED <<layoutFn, opts, fs, listing, frames, coverImgIndex, coverFrame, ei,
                   nPages, pi, pages, compFiles, compImg, err>>
    /\ UNCHANGED mainVars

Next == Start \/ RenderCover \/ EffectFrame \/ StartPages \/ ComposePage \/ Finish

Spec == Init /\ [][Next]_vars

(* --------------------- cmd/fbconvert: func main ------------------------ *)

\* largest number of files in the output directory before the run, and of
\* frames ffmpeg extracts
MaxOutFiles == 6

LayoutInputs == {"4x6x3", "letter", "letter-business", "a4"}

\* values of --margins, as strings.Split(margins, ",") cuts them; <<>> is ""
MarginInputs == {<<>>, <<"0.5", "0.5", "0.5", "0.5">>, <<"0", "0", "1">>,
                 <<"0", "x", "0", "0">>, <<"-0.5", "0", "0", "0">>,
                 <<"0", "5", "0", "0">>}

\* strconv.ParseFloat on the strings in use, in quarter inches
FloatOf == ("0" :> 0) @@ ("0.5" :> 2) @@ ("1" :> 4) @@ ("-0.5" :> -2) @@ ("5" :> 20)

\* parseMargins: four parts, each a float
parseMargins(margins) ==
    IF Len(margins) # 4 \/ \E i \in DOMAIN margins : margins[i] \notin DOMAIN FloatOf
    THEN [err |-> TRUE, top |-> 0, right |-> 0, bottom |-> 0, left |-> 0]
    ELSE [err |-> FALSE, top |-> FloatOf[margins[1]], right |-> FloatOf[margins[2]],
          bottom |-> FloatOf[margins[3]], left |-> FloatOf[margins[4]]]

ArgsOf ==
    [bgcolor : {"white", "black", "red"}, input : {"", "in.mp4"},
     output : {"", "out"}, skipvideo : BOOLEAN, fps : {0, 15}, clean : BOOLEAN,
     cleanframes : BOOLEAN, effect : EffectInputs, layout : LayoutInputs,
     margins : MarginInputs, cover : BOOLEAN, reversepages : BOOLEAN,
     reverseframes : {FALSE}]

\* composite.Options{}
ZeroOptions ==
    [Page |-> [Width |-> 0, Height |-> 0, MarginTop |-> 0, MarginRight |-> 0,
               MarginBottom |-> 0, MarginLeft |-> 0, DPI |-> 0],
     Rows |-> 0, Cols |-> 0, InputDir |-> "", OutputDir |-> "", Identifier |-> "",
     ReversePages |-> FALSE, ReverseFrames |-> FALSE, Cover |-> FALSE,
     Effect |-> "", VerLog |-> FALSE, BGColor |-> ""]

\* compOpts := composite.Options{...}, then compOpts.Page = page
compOptsOf(a, page) ==
    [Page |-> page, Rows |-> 0, Cols |-> 0, InputDir |-> a.output,
     OutputDir |-> a.output, Identifier |-> "id", ReversePages |-> a.reversepages,
     ReverseFrames |-> a.reverseframes, Cover |-> a.cover, Effect |-> a.effect,
     VerLog |-> TRUE, BGColor |-> IF a.bgcolor = "" THEN "white" ELSE a.bgcolor]

\* the page of a layout with its default margins
defaultPage(l) ==
    IF l = "4x6x3" THEN Page4x6
    ELSE IF l = "letter" THEN PageLetter ELSE PageLetterBusiness

\* composite.Page{...} of a layout case, margins from --margins when given
pageOf(l, m) ==
    IF m = <<>> THEN defaultPage(l)
    ELSE [defaultPage(l) EXCEPT !.MarginTop = parseMargins(m).top,
                                !.MarginRight = parseMargins(m).right,
                                !.MarginBottom = parseMargins(m).bottom,
                                !.MarginLeft = parseMargins(m).left]

libVars == <<layoutFn, opts, fs, pc, listing, frames, coverImgIndex, coverFrame,
             ei, nPages, pi, pages, compFiles, compImg, err>>

MainInit ==
    /\ args \in ArgsOf
    /\ mpc = "flags"
    /\ \E k \in 0..MaxOutFiles :
          fs = [p \in {Join("out", i) : i \in 1..k} |-> Orig(p[2])]
    /\ layoutFn = ""
    /\ opts = ZeroOptions
    /\ pc = "main"
    /\ listing = <<>>
    /\ frames = <<>>
    /\ coverImgIndex = 0
    /\ coverFrame = CoverName
    /\ ei = 0
    /\ nPages = 0
    /\ pi = 0
    /\ pages = <<>>
    /\ compFiles = <<>>
    /\ compImg = NoCanvas
    /\ err = ""
    /\ removed = {}
    /\ ffmpegRan = FALSE
    /\ videoFrames = <<>>
    /\ exitMsg = ""
    /\ geo = NoGeo

\* errLog.Println(msg); os.Exit(1)
MainExit(msg) == mpc' = "exit" /\ exitMsg' = msg

\* main lines 70-112: the flag checks, in order
MainFlags ==
    /\ mpc = "flags"
    /\ IF args.bgcolor \notin {"white", "black"}
       THEN MainExit("--bgcolor must be white|black")
       ELSE \/ MainExit("--fontpath cannot open font file")
            \/ IF args.input = "" /\ ~args.skipvideo
               THEN MainExit("--input is a required option")
               ELSE IF args.output = ""
               THEN MainExit("--output is a required option")
               ELSE IF args.fps < 1 \/ args.fps > 60
               THEN MainExit("--fps must be a value between 1 and 60")
               ELSE mpc' = "clean" /\ UNCHANGED exitMsg
    /\ UNCHANGED <<libVars, args, removed, ffmpegRan, videoFrames, geo>>

\* os.Remove of each path of a set
removeAll(f, gone) == [p \in DOMAIN f \ gone |-> f[p]]

\* main lines 114-136: --clean deletes every file of the output directory
MainClean ==
    /\ mpc = "clean"
    /\ IF ~args.clean
       THEN mpc' = "extract" /\ UNCHANGED <<fs, removed, exitMsg>>
       ELSE \E files \in {ReadDir(fs, args.output)} :
               \/ /\ files = <<>>
                  /\ MainExit("invalid output, the directory does not exist")
                  /\ UNCHANGED <<fs, removed>>
               \/ /\ MainExit("Failed to clean files")
                  /\ UNCHANGED <<fs, removed>>
               \/ \E j \in 0..Len(files) :
                     LET gone == {Join(args.output, files[i]) : i \in 1..j}
                     IN  /\ fs' = removeAll(fs, gone)
                         /\ removed' = removed \cup gone
                         /\ IF j < Len(files)
                            THEN MainExit("Failed to delete")
                            ELSE mpc' = "extract" /\ UNCHANGED exitMsg
    /\ UNCHANGED <<layoutFn, opts, pc, listing, frames, coverImgIndex, coverFrame, ei,
                   nPages, pi, pages, compFiles, compImg, err, args, ffmpegRan, videoFrames, geo>>

\* ffmpeg writes frame-<identifier>-%03d.png for n frames into the directory
extractInto(f, dir, n) ==
    [p \in DOMAIN f \cup {Join(dir, i) : i \in 1..n} |->
        IF p[1] = dir /\ p[2] \in 1..n THEN Orig(p[2]) ELSE f[p]]

\* the files of the directory whose name starts with "frame-"
framePrefixed(f, dir) == SelectSeq(ReadDir(f, dir), LAMBDA x : x # CoverName)

\* main lines 138-146 and ffmpeg.VideoFilter
MainExtract ==
    /\ mpc = "extract"
    /\ IF args.skipvideo
       THEN mpc' = "validate" /\ UNCHANGED <<fs, ffmpegRan, videoFrames, exitMsg>>
       ELSE \/ /\ MainExit("failed to extract frames")
               /\ UNCHANGED <<fs, ffmpegRan, videoFrames>>
            \/ /\ ffmpegRan' = TRUE
               /\ MainExit("failed to extract frames")
               /\ UNCHANGED <<fs, videoFrames>>
            \/ /\ ffmpegRan' = TRUE
               /\ \E n \in 0..MaxOutFiles :
                     /\ fs' = extractInto(fs, args.output, n)
                     /\ videoFrames' = framePrefixed(fs', args.output)
               /\ mpc' = "validate"
               /\ UNCHANGED exitMsg
    /\ UNCHANGED <<layoutFn, opts, pc, listing, frames, coverImgIndex, coverFrame, ei,
                   nPages, pi, pages, compFiles, compImg, err, args, removed, geo>>

\* main lines 148-176: title decoding, then the effect name
MainValidate ==
    /\ mpc = "validate"
    /\ \/ MainExit("error decoding line1text")
       \/ IF args.effect \notin ValidEffects \cup {""}
          THEN MainExit("invalid effect option")
          ELSE mpc' = "layout" /\ UNCHANGED exitMsg
    /\ UNCHANGED <<libVars, args, removed, ffmpegRan, videoFrames, geo>>

\* main lines 194-276: the layout switch builds the page and calls the library
MainLayout ==
    /\ mpc = "layout"
    /\ IF args.layout \notin {"4x6x3", "letter", "letter-business"}
       THEN /\ MainExit("invalid layout value")
            /\ UNCHANGED <<layoutFn, opts, pc>>
       ELSE IF args.margins # <<>> /\ parseMargins(args.margins).err
       THEN /\ MainExit("invalid margins option")
            /\ UNCHANGED <<layoutFn, opts, pc>>
       ELSE /\ layoutFn' = IF args.layout = "4x6x3" THEN "To4x6x3" ELSE "ToLetter"
            /\ opts' = compOptsOf(args, pageOf(args.layout, args.margins))
            /\ pc' = "start"
            /\ mpc' = "composite"
            /\ UNCHANGED exitMsg
    /\ UNCHANGED <<fs, listing, frames, coverImgIndex, coverFrame, ei, nPages, pi,
                   pages, compFiles, compImg, err, args, removed, ffmpegRan, videoFrames, geo>>

\* main lines 278-295: the library's error is reported, or the extracted
\* frames are deleted under --cleanframes
MainReport ==
    /\ mpc = "composite"
    /\ pc \in {"done", "error", "panic"}
    /\ IF pc = "panic"
       THEN MainExit("panic") /\ UNCHANGED <<fs, removed>>
       ELSE IF err # ""
       THEN MainExit("failed to composite images") /\ UNCHANGED <<fs, removed>>
       ELSE /\ mpc' = "exit"
            /\ exitMsg' = "All done"
            /\ IF args.cleanframes
               THEN \E gone \in SUBSET {Join(args.output, videoFrames[i]) :
                                          i \in DOMAIN videoFrames} :
                       /\ fs' = removeAll(fs, gone \cap DOMAIN fs)
                       /\ removed' = removed \cup (gone \cap DOMAIN fs)
               ELSE UNCHANGED <<fs, removed>>
    /\ UNCHANGED <<layoutFn, opts, pc, listing, frames, coverImgIndex, coverFrame, ei,
                   nPages, pi, pages, compFiles, compImg, err, args, ffmpegRan, videoFrames, geo>>

MainNext ==
    \/ MainFlags \/ MainClean \/ MainExtract \/ MainValidate \/ MainLayout
    \/ Start \/ RenderCover \/ EffectFrame \/ StartPages \/ ComposePage \/ Finish
    \/ MainReport

MainSpec == MainInit /\ [][MainNext]_vars

(* ------------------ compFrame: scaling and placement ------------------- *)

\* float64 arithmetic on positive values.  A float is [e, m]: m is the
\* significand, SigBits bits with the leading one first, e the exponent of
\* that leading bit.
SigBits == 53

RECURSIVE Pow2(_)
Pow2(k) == IF k = 0 THEN 1 ELSE 2 * Pow2(k - 1)

\* the binary digits of n, leading one first
RECURSIVE toBits(_)
toBits(n) == IF n = 0 THEN <<>> ELSE Append(toBits(n \div 2), n % 2)

\* the number a bit sequence spells
RECURSIVE fromBits(_)
fromBits(b) ==
    IF b = <<>> THEN 0 ELSE 2 * fromBits(SubSeq(b, 1, Len(b) - 1)) + b[Len(b)]

\* the k low binary digits of n
lowBits(n, k) == [i \in 1..k |-> (n \div Pow2(k - i)) % 2]

\* the remainder left after k bits of the long division r / d, r < d, taken
\* 13 bits at a time
RECURSIVE divRem(_, _, _)
divRem(r, d, k) ==
    IF k <= 13 THEN (r * Pow2(k)) % d
    ELSE divRem((r * Pow2(13)) % d, d, k - 13)

\* the next k bits of r / d for r < d, by long division 13 bits at a time
RECURSIVE divBits(_, _, _)
divBits(r, d, k) ==
    IF k <= 13 THEN lowBits((r * Pow2(k)) \div d, k)
    ELSE lowBits((r * Pow2(13)) \div d, 13) \o divBits((r * Pow2(13)) % d, d, k - 13)

\* a bit sequence plus one: [c, b], c the carry out of the leading bit
incBits(m) ==
    LET zeros == {i \in DOMAIN m : m[i] = 0}
        k == CHOOSE i \in zeros : \A z \in zeros : z <= i
    IN  IF zeros = {} THEN [c |-> 1, b |-> [i \in DOMAIN m |-> 0]]
        ELSE [c |-> 0,
              b |-> [i \in DOMAIN m |-> IF i < k THEN m[i] ELSE IF i = k THEN 1 ELSE 0]]

\* a bit sequence times the integer x plus c, 15 digits at a time from the
\* right: [c, b], c the carry out
RECURSIVE mulBits(_, _, _)
mulBits(m, x, c) ==
    IF m = <<>> THEN [c |-> c, b |-> <<>>]
    ELSE LET n == IF Len(m) < 15 THEN Len(m) ELSE 15
             v == fromBits(SubSeq(m, Len(m) - n + 1, Len(m))) * x + c
             t == mulBits(SubSeq(m, 1, Len(m) - n), x, v \div Pow2(n))
         IN  [c |-> t.c, b |-> t.b \o lowBits(v, n)]

\* round to nearest, ties to even: bits has at least SigBits + 1 digits with
\* the leading one first, sticky tells of non-zero digits beyond them
roundNearestEven(e, bits, sticky) ==
    LET kept == SubSeq(bits, 1, SigBits)
        guard == bits[SigBits + 1]
        rest == sticky \/ \E i \in (SigBits + 2)..Len(bits) : bits[i] = 1
        up == guard = 1 /\ (rest \/ kept[SigBits] = 1)
        inc == incBits(kept)
    IN  IF ~up THEN [e |-> e, m |-> kept]
        ELSE IF inc.c = 1 THEN [e |-> e + 1, m |-> <<1>> \o SubSeq(inc.b, 1, SigBits - 1)]
        ELSE [e |-> e, m |-> inc.b]

\* the exponent of a / b: 2^e <= a / b < 2^(e+1)
quotientExp(a, b) ==
    CHOOSE e \in -15..15 :
        IF e >= 0 THEN b * Pow2(e) <= a /\ a < b * Pow2(e + 1)
        ELSE b <= a * Pow2(-e) /\ a * Pow2(-e - 1) < b

\* float64(a) / float64(b) for integers a, b > 0
Float64Div(a, b) ==
    LET e == quotientExp(a, b)
        n0 == IF e >= 0 THEN a ELSE a * Pow2(-e)
        d0 == IF e >= 0 THEN b * Pow2(e) ELSE b
    IN  roundNearestEven(e, <<1>> \o divBits(n0 - d0, d0, SigBits),
                         divRem(n0 - d0, d0, SigBits) # 0)

\* f * float64(x) for an integer x > 0
Float64MulInt(f, x) ==
    LET p == mulBits(f.m, x, 0)
        hi == toBits(p.c)
    IN  roundNearestEven(f.e + Len(hi), hi \o p.b \o <<0>>, FALSE)

\* int(f): truncation
Float64ToInt(f) == IF f.e < 0 THEN 0 ELSE fromBits(SubSeq(f.m, 1, f.e + 1))

\* scaledWidth := int(float64(targetHeight) / float64(sourceHeight) *
\*                    float64(sourceWidth))
scaledWidthOf(targetHeight, sourceHeight, sourceWidth) ==
    Float64ToInt(Float64MulInt(Float64Div(targetHeight, sourceHeight), sourceWidth))

\* largest source image, in pixels, next to a few video sizes
MaxSourceWidth == 24
MaxSourceHeight == 8

SourceSizes ==
    ((1..MaxSourceWidth) \X (1..MaxSourceHeight))
        \cup {<<1920, 1080>>, <<1280, 720>>, <<640, 480>>, <<352, 110>>}

\* the cells the two layouts make of the pages of cmd/fbconvert
GeoCells ==
    {bounds4x6x3(renderBoundsOf([Page |-> Page4x6]), 3, ri) : ri \in 0..2}
        \cup {boundsLetter(renderBoundsOf([Page |-> p]), 5, 2, rc[1], rc[2]) :
                 p \in {PageLetter, PageLetterBusiness}, rc \in {0, 4} \X {0, 1}}

MaxOf(a, b) == IF a >= b THEN a ELSE b
MinOf(a, b) == IF a <= b THEN a ELSE b

\* compFrame has decoded a source image of sw x sh pixels for a cell
ScaleInit ==
    /\ \E size \in SourceSizes, b \in GeoCells :
          geo = [stage |-> "decoded", sw |-> size[1], sh |-> size[2], bounds |-> b]
    /\ layoutFn = ""
    /\ opts = ZeroOptions
    /\ fs = <<>>
    /\ pc = "compFrame"
    /\ listing = <<>>
    /\ frames = <<>>
    /\ coverImgIndex = 0
    /\ coverFrame = CoverName
    /\ ei = 0
    /\ nPages = 0
    /\ pi = 0
    /\ pages = <<>>
    /\ compFiles = <<>>
    /\ compImg = NoCanvas
    /\ err = ""
    /\ mpc = "lib"
    /\ args = NoArgs
    /\ removed = {}
    /\ ffmpegRan = FALSE
    /\ videoFrames = <<>>
    /\ exitMsg = ""

\* compFrame lines 478-488: the source is scaled to the cell's height
ScaleImage ==
    /\ geo.stage = "decoded"
    /\ geo' = [stage |-> "scaled", sw |-> geo.sw, sh |-> geo.sh, bounds |-> geo.bounds,
               scaledWidth |-> scaledWidthOf(geo.bounds.height, geo.sh, geo.sw)]
    /\ UNCHANGED <<libVars, mpc, args, removed, ffmpegRan, videoFrames, exitMsg>>

\* compFrame lines 491-505: draw.Draw of the scaled image into dstRect from
\* the source point sp; draw.Draw clips dstRect to what the source covers
DrawImage ==
    /\ geo.stage = "scaled"
    /\ LET b == geo.bounds
           left == MaxOf(b.left, b.left + (b.width - geo.scaledWidth))
           spX == MaxOf(0, geo.scaledWidth - b.width)
           maxX == MinOf(b.left + b.width, left - spX + geo.scaledWidth)
       IN  geo' = [stage |-> "drawn", sw |-> geo.sw, sh |-> geo.sh, bounds |-> b,
                   scaledWidth |-> geo.scaledWidth, srcX |-> spX,
                   painted |-> [left |-> left, top |-> b.top,
                                width |-> maxX - left, height |-> b.height]]
    /\ UNCHANGED <<libVars, mpc, args, removed, ffmpegRan, videoFrames, exitMsg>>

\* compFrame lines 507-512: the black bar, barWidth := 100
DrawBar ==
    /\ geo.stage = "drawn"
    /\ geo' = [stage |-> "bar", sw |-> geo.sw, sh |-> geo.sh, bounds |-> geo.bounds,
               scaledWidth |-> geo.scaledWidth, srcX |-> geo.srcX,
               painted |-> geo.painted,
               bar |-> [left |-> geo.bounds.left, top |-> geo.bounds.top,
                        width |-> 100, height |-> geo.bounds.height]]
    /\ UNCHANGED <<libVars, mpc, args, removed, ffmpegRan, videoFrames, exitMsg>>

ScaleNext == ScaleImage \/ DrawImage \/ DrawBar

ScaleSpec == ScaleInit /\ [][ScaleNext]_vars

(* ------------------------- vocabulary of the claims --------------------- *)

\* ReadDir succeeded and the frames were trimmed
Listed == pc # "start" /\ err \notin {"VerLog cannot be nil", "failed to read input images"}

\* the cover was substituted into the frame list
Substituted == \E i \in DOMAIN frames : frames[i] = CoverName

\* the page loop was reached
InPages == pc \in {"pages", "done"} \/ pages # <<>>

\* row and column of a cell, read off its destination rect
RowOf(c) == (c.bounds.top - renderBoundsOf(opts).top) \div c.bounds.height
ColOf(c) == (c.bounds.left - renderBoundsOf(opts).left) \div c.bounds.width

\* the cells of all pages laid out so far, as <<page record index, cell index>>
AllCells == {<<i, j>> \in (DOMAIN pages) \X (1..framesPerPage(opts)) : j \in DOMAIN pages[i].cells}
CellAt(ij) == pages[ij[1]].cells[ij[2]]

\* the cells compFrame was called on: drawn, or the one that failed
Attempted(ij) == ij[2] <= Len(pages[ij[1]].drawn) \/ ij[2] = pages[ij[1]].failedCell

\* what a placement is for the reversal claims
Placement(c) == [index |-> c.index, bounds |-> c.bounds, isFrontCover |-> c.isFrontCover]
Placements(cells) == [j \in DOMAIN cells |-> Placement(cells[j])]

\* the run the same inputs give under other options: frame list, cover index,
\* page count, and the layout of page iteration p
FramesUnder(o) == substituteCover(o, trimFrames(listing, framesPerPage(o)))
CoverIndexUnder(o) == IF o.Cover THEN coverIndexOf(o, Len(FramesUnder(o))) ELSE 0
NPagesUnder(o) == nPagesOf(o, FramesUnder(o))
LayoutUnder(o, p) ==
    layout(layoutFn, p, NPagesUnder(o), CoverIndexUnder(o), renderBoundsOf(o), o,
           FramesUnder(o))

(* -------------------------------- claims -------------------------------- *)

\* C1: in the three-row single-column layout with n pages and frame reversal
\* off, the cell of page p in row r holds frame index p + r*n; n is the
\* number of listed files divided by 3; and over a whole run the indices of a
\* fixed row r are exactly the contiguous range r*n .. r*n + n - 1.
C1_ThreeRowInterlace ==
    (layoutFn = "To4x6x3" /\ ~opts.ReverseFrames) =>
        /\ InPages => nPages = Len(listing) \div 3
        /\ \A ij \in AllCells :
              /\ RowOf(CellAt(ij)) = ij[2] - 1
              /\ CellAt(ij).index = pages[ij[1]].pi + RowOf(CellAt(ij)) * nPages
        /\ pc = "done" =>
              /\ Len(pages) = nPages
              /\ \A r \in 0..2 :
                    {CellAt(ij).index : ij \in {x \in AllCells : RowOf(CellAt(x)) = r}}
                        = (r * nPages)..(r * nPages + nPages - 1)

\* a finished three-row run of 30 frames: 10 pages, page 0 holds {0, 10, 20}
\* and page 9 holds {9, 19, 29}
C1_Witness ==
    /\ pc = "done" /\ layoutFn = "To4x6x3" /\ ~opts.ReverseFrames
    /\ Len(listing) = 30 /\ nPages = 10
    /\ {pages[1].cells[j].index : j \in 1..3} = {0, 10, 20}
    /\ {pages[10].cells[j].index : j \in 1..3} = {9, 19, 29}

\* C2: in the grid layout (5 rows, 2 columns) with n pages and frame reversal
\* off, the cell of page p at row r, column c holds frame index
\* p + r*n + c*n*5, every (r, c) of the grid is a cell of every page, and over
\* a whole run each fixed cell receives a contiguous run of n indices.
C2_GridInterlace ==
    (layoutFn = "ToLetter" /\ ~opts.ReverseFrames) =>
        /\ InPages => nPages = Len(listing) \div 10
        /\ \A ij \in AllCells :
              CellAt(ij).index =
                  pages[ij[1]].pi + RowOf(CellAt(ij)) * nPages
                      + ColOf(CellAt(ij)) * nPages * 5
        /\ \A i \in DOMAIN pages :
              {<<RowOf(pages[i].cells[j]), ColOf(pages[i].cells[j])>> :
                   j \in DOMAIN pages[i].cells} = (0..4) \X (0..1)
        /\ pc = "done" =>
              \A r \in 0..4, c \in 0..1 :
                  {CellAt(ij).index :
                       ij \in {x \in AllCells :
                                  RowOf(CellAt(x)) = r /\ ColOf(CellAt(x)) = c}}
                      = (r * nPages + c * nPages * 5)
                            ..(r * nPages + c * nPages * 5 + nPages - 1)

\* a finished grid run of 20 frames: 2 pages, page 0 row 0 column 0 holds
\* frame 0 and row 0 column 1 holds frame 10
C2_Witness ==
    /\ pc = "done" /\ layoutFn = "ToLetter" /\ ~opts.ReverseFrames
    /\ Len(listing) = 20 /\ nPages = 2
    /\ \E j, k \in 1..10 :
          /\ RowOf(pages[1].cells[j]) = 0 /\ ColOf(pages[1].cells[j]) = 0
          /\ pages[1].cells[j].index = 0
          /\ RowOf(pages[1].cells[k]) = 0 /\ ColOf(pages[1].cells[k]) = 1
          /\ pages[1].cells[k].index = 10

\* C3 (as amended): once the directory is listed, the frame list has length
\* k*floor(f/k) for f listed files and capacity k = rows*cols, exactly f mod k
\* (at most k-1) trailing files are left out, and every entry is the entry of
\* the name-ordered listing at the same position, except that with the cover
\* enabled the entry at the cover index is the cover.png entry.
C3_TrimmedPrefix ==
    Listed =>
        LET f == Len(listing)
            k == framesPerPage(opts)
        IN  /\ Len(frames) = k * (f \div k)
            /\ Len(frames) % k = 0
            /\ f - Len(frames) = f % k
            /\ f - Len(frames) <= k - 1
            /\ \A i \in DOMAIN listing : listing[i] = i
            /\ \A i \in DOMAIN frames :
                  \/ frames[i] = listing[i]
                  \/ opts.Cover /\ i = coverImgIndex + 1 /\ frames[i] = CoverName

\* a finished run that left files out and whose layout list holds the cover
C3_Witness ==
    /\ pc = "done" /\ opts.Cover
    /\ Len(listing) % framesPerPage(opts) = 2
    /\ Len(frames) = 2 * framesPerPage(opts)
    /\ frames[coverImgIndex + 1] = CoverName

\* C3 (as stated): the frame list used for layout is a prefix of the
\* name-ordered listing, of length k*floor(f/k).
C3_LayoutListIsPrefix ==
    Listed =>
        frames = SubSeq(listing, 1,
                        framesPerPage(opts) * (Len(listing) \div framesPerPage(opts)))

\* C4: with fewer than rows*cols files listed, the run ends in an error
\* returned to the caller: it neither indexes past the empty frame list nor
\* returns success.
C4_InsufficientFramesFail ==
    (Listed /\ Len(listing) < framesPerPage(opts)) => pc \notin {"panic", "done"}

\* C5: with the cover enabled, a finished run has exactly one cell flagged
\* isFrontCover, and whenever compFrame is called on a flagged cell the file
\* it reads is the cover.png the run wrote, holding the blurred image.
C5_CoverCellShowsCover ==
    opts.Cover =>
        /\ pc = "done" =>
              Cardinality({ij \in AllCells : CellAt(ij).isFrontCover}) = 1
        /\ \A ij \in {x \in AllCells : CellAt(x).isFrontCover /\ Attempted(x)} :
              /\ imgPathOf(CellAt(ij)) = Join(opts.OutputDir, CoverName)
              /\ ij[2] \in DOMAIN pages[ij[1]].drawn =>
                    /\ pages[ij[1]].drawn[ij[2]].img = fs[Join(opts.OutputDir, CoverName)]
                    /\ pages[ij[1]].drawn[ij[2]].img.blur

\* C6: with the cover enabled, the cover image is rendered from the frame whose
\* slot it takes: the blurred picture saved as cover.png shows the listed
\* frame at the cover index.
C6_CoverFromReplacedFrame ==
    (opts.Cover /\ Substituted) =>
        /\ coverFrame = listing[coverImgIndex + 1]
        /\ fs[Join(opts.OutputDir, CoverName)].src = listing[coverImgIndex + 1]

\* C7: with the cover enabled, the cover index is 0 without frame reversal and
\* len(frames)-1 with it, the cover entry sits at that index before any page
\* is laid out, and the page count is the one the run has with the cover off.
C7_CoverIndexAndPageCount ==
    /\ (opts.Cover /\ Substituted) =>
          /\ coverImgIndex = IF opts.ReverseFrames THEN Len(frames) - 1 ELSE 0
          /\ \A i \in DOMAIN frames : frames[i] = CoverName <=> i = coverImgIndex + 1
    /\ (opts.Cover /\ InPages) =>
          /\ Substituted
          /\ \A ij \in AllCells :
                CellAt(ij).info = CoverName <=> CellAt(ij).index = coverImgIndex
          /\ nPages = NPagesUnder([opts EXCEPT !.Cover = FALSE])
          /\ nPages = Len(listing) \div framesPerPage(opts)

\* a finished run of 30 frames with the cover on and the frames reversed:
\* the cover sits at index 29
C7_Witness ==
    /\ pc = "done" /\ opts.Cover /\ opts.ReverseFrames
    /\ Len(frames) = 30 /\ coverImgIndex = 29 /\ frames[30] = CoverName
    /\ Len(pages) = nPages

\* C8: toggling reversePages alone leaves every page iteration's placements
\* (frame index, destination rect, isFrontCover) as they are: the run with the
\* flag toggled has as many pages and lays out page iteration p identically.
C8_ReversePagesOnlyRenumbers ==
    LET o2 == [opts EXCEPT !.ReversePages = ~@]
    IN  InPages =>
            /\ nPages = NPagesUnder(o2)
            /\ \A i \in DOMAIN pages :
                  /\ ~LayoutUnder(o2, pages[i].pi).panic
                  /\ Placements(LayoutUnder(o2, pages[i].pi).cells)
                        = Placements(pages[i].cells)

\* a finished run of several pages written in reverse numbering
C8_Witness ==
    /\ pc = "done" /\ opts.ReversePages /\ nPages >= 2
    /\ DOMAIN compFiles = 0..(nPages - 1)
    /\ compFiles[0] = nPages - 1

\* C9: toggling reverseFrames alone leaves the numbering as it is: the run
\* with the flag toggled has as many pages and gives page iteration p the
\* same output index.
C9_ReverseFramesKeepsNumbering ==
    LET o2 == [opts EXCEPT !.ReverseFrames = ~@]
    IN  InPages =>
            /\ nPages = NPagesUnder(o2)
            /\ \A n \in DOMAIN compFiles : n = compIndexOf(o2, NPagesUnder(o2), compFiles[n])

\* a finished run of several pages with the frames reversed: the first cell
\* laid out holds the last frame, which the run with the flag off puts last
C9_Witness ==
    /\ pc = "done" /\ opts.ReverseFrames /\ nPages >= 2
    /\ pages[1].cells[1].index = Len(frames) - 1
    /\ LayoutUnder([opts EXCEPT !.ReverseFrames = FALSE], 0).cells[1].index = 0
    /\ DOMAIN compFiles = 0..(nPages - 1)

\* C10: with reverseFrames set, in both layouts the cell of page p at row r,
\* column c holds index totalFrames - i - 1 for the unreversed index
\* i = p + r*n + c*n*rows, every such index is within [0, totalFrames), and
\* no layout call indexes outside the frame list.
C10_ReversedIndex ==
    /\ opts.ReverseFrames =>
          \A ij \in AllCells :
              LET c == CellAt(ij)
                  i == pages[ij[1]].pi + RowOf(c) * nPages
                           + ColOf(c) * nPages * opts.Rows
              IN  /\ c.index = Len(frames) - i - 1
                  /\ c.index >= 0 /\ c.index < Len(frames)
    /\ pc = "panic" => frames = <<>> /\ pages = <<>>

\* a finished run with the frames reversed in the grid layout
C10_Witness ==
    /\ pc = "done" /\ opts.ReverseFrames /\ layoutFn = "ToLetter" /\ nPages = 2
    /\ pages[2].cells[10].index = 0
    /\ pages[1].cells[1].index = 19

\* the error messages of the effect loop, renderPages lines 281-336
EffectErrors == {"failed to load frame", "invalid effect option",
                 "failed to apply effect", "failed to save image with effect"}

\* the page iterations whose file was written
WrittenPages == {compFiles[n] : n \in DOMAIN compFiles}

\* C11: the page of iteration p is written under the index totalPages - p - 1
\* when reversePages is set and p otherwise; after a successful run the indices
\* are exactly 0..totalPages-1 and each belongs to one iteration.
C11_PageFileIndex ==
    /\ \A n \in DOMAIN compFiles :
          n = IF opts.ReversePages THEN nPages - compFiles[n] - 1 ELSE compFiles[n]
    /\ pc = "done" =>
          /\ DOMAIN compFiles = 0..(nPages - 1)
          /\ WrittenPages = 0..(nPages - 1)
          /\ \A m, n \in DOMAIN compFiles : compFiles[m] = compFiles[n] => m = n

C11_Witness ==
    /\ pc = "done"
    /\ opts.ReversePages
    /\ nPages >= 3
    /\ compFiles[0] = nPages - 1

\* C12: with an effect name that is neither empty nor one of the five, a run
\* that got its frame list never succeeds and never reports a frame load
\* failure in place of the invalid effect.
C12_InvalidEffectRejectedFirst ==
    (Listed /\ opts.Effect \notin ValidEffects \cup {""}) =>
        /\ pc # "done"
        /\ err # "failed to load frame"

\* C14: with an effect, no page is composited before every trimmed frame has
\* been through the effect, and a failed effect pass leaves no page composited
\* or written.
C14_EffectPassBeforePages ==
    /\ (opts.Effect # "" /\ InPages) =>
          /\ ei = Len(frames)
          /\ \A i \in DOMAIN frames :
                /\ Join(opts.InputDir, frames[i]) \in DOMAIN fs
                /\ fs[Join(opts.InputDir, frames[i])].fx >= 1
    /\ err \in EffectErrors => pages = <<>> /\ DOMAIN compFiles = {}

C14_Witness ==
    /\ opts.Effect # ""
    /\ Len(frames) >= 6
    /\ DOMAIN compFiles # {}

\* C15: with the cover disabled no run ends in a font error.
C15_NoFontErrorWithoutCover ==
    ~opts.Cover => err # "failed to parse font file"

\* a rect lies inside another
Inside(b, outer) ==
    /\ outer.left <= b.left
    /\ b.left + b.width <= outer.left + outer.width
    /\ outer.top <= b.top
    /\ b.top + b.height <= outer.top + outer.height

\* two rects share no pixel
Disjoint(a, b) ==
    \/ a.left + a.width <= b.left
    \/ b.left + b.width <= a.left
    \/ a.top + a.height <= b.top
    \/ b.top + b.height <= a.top

\* C18: every laid out page has rows * cols placements, each rectangle inside
\* the printable rectangle and no two of them overlapping.
C18_CellsTileThePage ==
    \A i \in DOMAIN pages :
        /\ Len(pages[i].cells) = opts.Rows * opts.Cols
        /\ \A j \in DOMAIN pages[i].cells :
              /\ pages[i].cells[j].bounds.width > 0
              /\ pages[i].cells[j].bounds.height > 0
              /\ Inside(pages[i].cells[j].bounds, renderBoundsOf(opts))
        /\ \A j, k \in DOMAIN pages[i].cells :
              j # k => Disjoint(pages[i].cells[j].bounds, pages[i].cells[k].bounds)

C18_Witness ==
    /\ layoutFn = "ToLetter"
    /\ opts.Page = PageLetterBusiness
    /\ Len(pages) >= 2
    /\ Len(pages[1].cells) = 10

\* C19: when a frame file cannot be read while page p is composited the run
\* stops with that error: the files of pages 0..p-1 are there, page p has no
\* file and no later page was composited.
C19_ReadFailureStopsAtPage ==
    err = "failed to read input image" =>
        /\ pc = "error"
        /\ pages # <<>>
        /\ pages[Len(pages)].pi = pi
        /\ pages[Len(pages)].failedCell # 0
        /\ Len(pages) = pi + 1
        /\ \A i \in DOMAIN pages : pages[i].pi = i - 1
        /\ WrittenPages = 0..(pi - 1)
        /\ DOMAIN compFiles = {compIndexOf(opts, nPages, q) : q \in 0..(pi - 1)}
        /\ ~ENABLED ComposePage

C19_Witness ==
    /\ err = "failed to read input image"
    /\ pi >= 1
    /\ pi + 1 < nPages
    /\ pages[Len(pages)].failedCell >= 2

\* C20: under the letter-business page with its default margins every page has
\* 10 cells, each 1050 x 600 pixels (3.5in x 2in at 300 DPI).
C20_BusinessCardCells ==
    opts.Page = PageLetterBusiness =>
        \A i \in DOMAIN pages :
            /\ Len(pages[i].cells) = 10
            /\ \A j \in DOMAIN pages[i].cells :
                  /\ pages[i].cells[j].bounds.width = 1050
                  /\ pages[i].cells[j].bounds.height = 600

\* the messages of main's configuration errors
ConfigErrors == {"invalid effect option", "invalid layout value",
                 "invalid margins option"}

\* C13: when main ends on an invalid effect, an invalid layout or malformed
\* margins, it has deleted nothing, has not run the extraction and no
\* cover.png or page file has been written.
C13_ConfigErrorsBeforeIO ==
    exitMsg \in ConfigErrors =>
        /\ removed = {}
        /\ ~ffmpegRan
        /\ DOMAIN compFiles = {}
        /\ \A p \in DOMAIN fs : p[2] # CoverName

\* C16: every composited page was filled with the configured background
\* colour: white for "white", black for anything else.
C16_CanvasFilledWithBGColor ==
    \A i \in DOMAIN pages :
        pages[i].bg = IF opts.BGColor = "white" THEN "white" ELSE "black"

\* C17: a source of sw x sh pixels drawn into a cell of w x h pixels is
\* scaled to width w' = floor(h * sw / sh); if w' > w the w' - w leftmost
\* columns of the scaled image are cropped and the cell is covered, otherwise
\* the image ends at the cell's right edge and leaves the w - w' leftmost
\* columns of the cell; nothing is drawn outside the cell.
C17_ScaleAndCrop ==
    geo.stage \in {"drawn", "bar"} =>
        LET b == geo.bounds
            w1 == (b.height * geo.sw) \div geo.sh
        IN  /\ geo.scaledWidth = w1
            /\ geo.painted.height = b.height
            /\ w1 > b.width =>
                  /\ geo.srcX = w1 - b.width
                  /\ geo.painted = b
            /\ w1 <= b.width =>
                  /\ geo.srcX = 0
                  /\ geo.painted.width = w1
                  /\ geo.painted.left + geo.painted.width = b.left + b.width
                  /\ geo.painted.left - b.left = b.width - w1
            /\ Inside(geo.painted, b)

C22_EveryTrimmedFileProcessedOnce ==
    (pc = "done" /\ opts.Effect # "") =>
        \A i \in 1..TrimLen(Len(listing), framesPerPage(opts)) :
            /\ Join(opts.InputDir, listing[i]) \in DOMAIN fs
            /\ fs[Join(opts.InputDir, listing[i])].fx = 1

\* C23: when the effect fails on the i-th frame of the pass, the files of
\* the frames before it hold processed pixels, the files after it are as
\* they were, the run is over and no page was composited or written.
C23_PartialEffectPass ==
    err \in EffectErrors =>
        /\ pc = "error"
        /\ ei < Len(frames)
        /\ \A j \in 1..ei :
              /\ Join(opts.InputDir, frames[j]) \in DOMAIN fs
              /\ fs[Join(opts.InputDir, frames[j])].fx = 1
        /\ \A j \in (ei + 2)..Len(frames) :
              Join(opts.InputDir, frames[j]) \in DOMAIN fs =>
                  fs[Join(opts.InputDir, frames[j])].fx = 0
        /\ pages = <<>>
        /\ DOMAIN compFiles = {}
        /\ compImg = NoCanvas

C23_Witness ==
    /\ err = "failed to apply effect"
    /\ ei >= 2
    /\ ei + 2 <= Len(frames)
    /\ fs[Join(opts.InputDir, frames[1])].fx = 1
    /\ fs[Join(opts.InputDir, frames[Len(frames)])].fx = 0

\* C25: over a complete run with N trimmed frames every index the layout
\* computed is within 0..N-1 and every index of 0..N-1 is placed in exactly
\* one cell of one page.
C25_LayoutIsBijection ==
    pc = "done" =>
        /\ Len(pages) = nPages
        /\ \A ij \in AllCells :
              /\ CellAt(ij).index \in 0..(Len(frames) - 1)
              /\ CellAt(ij).info = frames[CellAt(ij).index + 1]
        /\ \A k \in 0..(Len(frames) - 1) :
              Cardinality({ij \in AllCells : CellAt(ij).index = k}) = 1

C25_Witness ==
    /\ pc = "done"
    /\ layoutFn = "ToLetter"
    /\ opts.ReverseFrames
    /\ nPages >= 2
    /\ Cardinality(AllCells) = Len(frames)

\* C26: with the cover disabled no cell of the run is flagged isFrontCover.
C26_NoFrontCoverCellWithoutCover ==
    ~opts.Cover => \A ij \in AllCells : ~CellAt(ij).isFrontCover

\* top, left, width and height of a rect are not negative
NonNegative(b) == b.top >= 0 /\ b.left >= 0 /\ b.width >= 0 /\ b.height >= 0

\* C24: once main has accepted the margins and called the library, the four
\* margins are not negative and the printable rectangle and every cell rect
\* have non-negative top, left, width and height.
C24_AcceptedMarginsGiveRects ==
    (mpc = "composite" /\ pc # "main") =>
        /\ opts.Page.MarginTop >= 0 /\ opts.Page.MarginRight >= 0
        /\ opts.Page.MarginBottom >= 0 /\ opts.Page.MarginLeft >= 0
        /\ NonNegative(renderBoundsOf(opts))
        /\ \A i \in DOMAIN pages : \A j \in DOMAIN pages[i].cells :
              NonNegative(pages[i].cells[j].bounds)
====
